---- MODULE Spec2Model ----
(***************************************************************************)
(* Tasks service (app.py) and its stand-alone auth decorator (auth.py).    *)
(*                                                                         *)
(* State: the three Mongo collections (tarefas, task_snapshots,            *)
(* idempotency), the ObjectId generator, the two process-wide JWKS caches  *)
(* (app._JWKS_CACHE and auth._cached_jwks/_cached_jwks_ts), the clock, the *)
(* configuration (TESTING, AUTH0_DOMAIN) and one record per HTTP request   *)
(* with its inputs, its position in the route handler, the handler's local *)
(* variables and its response.                                             *)
(***************************************************************************)
EXTENDS Integers, Sequences, FiniteSets, TLC

VARIABLES
    TESTING,         \* app.config["TESTING"]
    AUTH0_DOMAIN,    \* app.py:56 / auth.py:10, a domain or NoneStr
    now,             \* time.time(), whole seconds
    ticks,           \* how many times the clock advanced (bounded)
    JWKS_CACHE,      \* app.py:61 _JWKS_CACHE
    cached_jwks,     \* auth.py:16 _cached_jwks
    cached_jwks_ts,  \* auth.py:17 _cached_jwks_ts
    call,            \* the last direct call of a decorator / of get-keys
    tarefas,         \* mongo.db.tarefas
    task_snapshots,  \* mongo.db.task_snapshots
    idempotency,     \* mongo.db.idempotency
    nextId,          \* ObjectId generator: the next fresh id
    req              \* the HTTP requests of the run, one record each

vars == <<TESTING, AUTH0_DOMAIN, now, ticks, JWKS_CACHE, cached_jwks,
          cached_jwks_ts, call, tarefas, task_snapshots, idempotency,
          nextId, req>>

authVars == <<JWKS_CACHE, cached_jwks, cached_jwks_ts, call>>
dbVars == <<tarefas, task_snapshots, idempotency, nextId>>

(***************************************************************************)
(* Bounds of the model                                                     *)
(***************************************************************************)
MaxReq == 3      \* requests in one run
MaxTicks == 2    \* clock advances in one run
MaxCalls == 2    \* direct decorator / get-keys calls in one run

Req == 1..MaxReq

(***************************************************************************)
(* Python values                                                           *)
(***************************************************************************)
NoneStr == "<None>"              \* None where a string is expected
NoneDoc == [py_none |-> TRUE]    \* None where a dict is expected
EmptyDict == [py_dict |-> TRUE]  \* {} : a dict with no entries

\* dict.get(k, default) on a dict modelled as a function
Get(d, k, default) == IF k \in DOMAIN d THEN d[k] ELSE default

\* request.headers.get(name, None): a header is absent or has a value
NoHeader == [present |-> FALSE, value |-> <<>>]
Hdr(v) == [present |-> TRUE, value |-> v]

(***************************************************************************)
(* Strings that the code splits are sequences of lexemes: a word, or WS,   *)
(* one run of whitespace.                                                  *)
(***************************************************************************)
WS == " "

\* str.split(): the words, whitespace runs dropped
split(s) == SelectSeq(s, LAMBDA x : x # WS)

\* str.lower() on the words that occur in first position
lower(w) ==
    CASE w \in {"Bearer", "BEARER", "bearer"} -> "bearer"
      [] w \in {"Basic", "basic"} -> "basic"
      [] OTHER -> w

\* Python truthiness of a str (None or "" are falsy)
StrFalsy(h) == ~h.present \/ h.value = <<>>

(***************************************************************************)
(* Identity provider: keys, key sets, tokens                               *)
(***************************************************************************)
Domain == "tenant.auth0.com"
Audience == "https://tasks-api"
Issuer(d) == <<"https://", d, "/">>          \* f"https://{AUTH0_DOMAIN}/"
ALGORITHMS == {"RS256"}

JWK(kid, n) == [kty |-> "RSA", kid |-> kid, use |-> "sig", n |-> n, e |-> "AQAB"]
KeyA == JWK("kidA", "nA")
KeyB == JWK("kidB", "nB")
KeyA2 == JWK("kidA", "nA2")    \* same key id, other key material

\* A key-set document as r.json() returns it
Jwks(ks) == [keys |-> ks]
JwksDocs == {EmptyDict, Jwks(<<KeyA>>), Jwks(<<KeyB>>), Jwks(<<KeyA2, KeyA>>)}

\* What requests.get(...) + raise_for_status() + r.json() can produce
NetError == [net_error |-> TRUE]
NetResults == JwksDocs \cup {NetError}

\* Truthiness of a cached key set: None and {} are falsy
JwksTruthy(j) == j # NoneDoc /\ j # EmptyDict

\* jwks.get("keys", [])
JwksKeys(j) == IF "keys" \in DOMAIN j THEN j.keys ELSE <<>>

\* A token's "scope" claim: a str, a value that is no str, or no entry
StrScope(v) == [kind |-> "str", value |-> v]
NoScope == [kind |-> "absent", value |-> <<>>]
NonStrScope == [kind |-> "nonstr", value |-> <<>>]

Token(wf, alg, kid, n, aud, iss, expired, scope, sub) ==
    [wellformed |-> wf, alg |-> alg, kid |-> kid, sig_n |-> n, aud |-> aud,
     iss |-> iss, expired |-> expired, scope |-> scope, sub |-> sub]

GoodTok(scope, sub) ==
    Token(TRUE, "RS256", "kidA", "nA", Audience, Issuer(Domain), FALSE, scope, sub)

\* The bearer tokens of the model, by the word that stands for them
TokenWords == {"tGood", "tNoScope", "tReadOnly", "tListScope", "tGarbage",
               "tUnknownKid", "tForged", "tAlgNone", "tExpired", "tWrongAud",
               "tWrongIss", "tKeyB"}

Jwt(w) ==
    CASE w = "tGood" -> GoodTok(StrScope(<<"read:tasks", WS, "write:tasks">>), "u1")
      [] w = "tNoScope" -> GoodTok(NoScope, "u2")
      [] w = "tReadOnly" -> GoodTok(StrScope(<<"read:tasks">>), "u3")
      [] w = "tListScope" -> GoodTok(NonStrScope, "u4")
      [] w = "tUnknownKid" ->
            Token(TRUE, "RS256", "kidZ", "nZ", Audience, Issuer(Domain), FALSE,
                  StrScope(<<"write:tasks">>), "u1")
      [] w = "tForged" ->
            Token(TRUE, "RS256", "kidA", "nEvil", Audience, Issuer(Domain), FALSE,
                  StrScope(<<"write:tasks">>), "u1")
      [] w = "tAlgNone" ->
            Token(TRUE, "none", "kidA", "nA", Audience, Issuer(Domain), FALSE,
                  StrScope(<<"write:tasks">>), "u1")
      [] w = "tExpired" ->
            Token(TRUE, "RS256", "kidA", "nA", Audience, Issuer(Domain), TRUE,
                  StrScope(<<"write:tasks">>), "u1")
      [] w = "tWrongAud" ->
            Token(TRUE, "RS256", "kidA", "nA", "https://other-api", Issuer(Domain),
                  FALSE, StrScope(<<"write:tasks">>), "u1")
      [] w = "tWrongIss" ->
            Token(TRUE, "RS256", "kidA", "nA", Audience, Issuer("evil.example"),
                  FALSE, StrScope(<<"write:tasks">>), "u1")
      [] w = "tKeyB" ->
            Token(TRUE, "RS256", "kidB", "nB", Audience, Issuer(Domain), FALSE,
                  StrScope(<<"write:tasks">>), "u5")
      [] OTHER ->      \* "tGarbage" and every word that is no JWT
            Token(FALSE, "none", NoneStr, NoneStr, NoneStr, <<>>, FALSE, NoScope,
                  NoneStr)

\* jose jwt.get_unverified_header(token): raises on a token that is no JWT
get_unverified_header(w) ==
    IF Jwt(w).wellformed
    THEN [raised |-> FALSE, kid |-> Jwt(w).kid]
    ELSE [raised |-> TRUE, kid |-> NoneStr]

MutJwtDecodeNoSignature(w, rsa_key, audience, issuer) ==
    LET t == Jwt(w) IN
    IF ~t.wellformed \/ t.alg \notin ALGORITHMS THEN "JWTError"
    ELSE IF t.expired THEN "ExpiredSignatureError"
    ELSE IF t.aud # audience \/ t.iss # issuer THEN "JWTClaimsError"
    ELSE "ok"

\* jose jwt.decode(token, rsa_key, algorithms, audience, issuer): the
\* signature first, then the claims (exp, then aud and iss)
jwt_decode(w, rsa_key, audience, issuer) ==
    LET t == Jwt(w) IN
    IF ~t.wellformed \/ t.alg \notin ALGORITHMS \/ t.sig_n # rsa_key.n
    THEN "JWTError"
    ELSE IF t.expired THEN "ExpiredSignatureError"
    ELSE IF t.aud # audience \/ t.iss # issuer THEN "JWTClaimsError"
    ELSE "ok"

\* the decoded claims
Payload(w) == [sub |-> Jwt(w).sub, scope |-> Jwt(w).scope]

(***************************************************************************)
(* Key-set cache                                                           *)
(***************************************************************************)
TTL == 3600

\* The outcome of a get-keys call: the key set (or the exception), the cache
\* afterwards and the number of network fetches it made
KeysResult(raised, jwks, cache, fetches) ==
    [raised |-> raised, jwks |-> jwks, cache |-> cache, fetches |-> fetches]

\* app.py _get_jwks(); net is what the identity provider answers if asked
MutGetJwksNoExpiry(cache, dom, t, net) ==
    IF dom = NoneStr THEN KeysResult(TRUE, NoneDoc, cache, 0)
    ELSE IF JwksTruthy(cache.jwks) THEN KeysResult(FALSE, cache.jwks, cache, 0)
    ELSE IF net = NetError THEN KeysResult(TRUE, NoneDoc, cache, 1)
    ELSE KeysResult(FALSE, net, [cache EXCEPT !.jwks = net, !.fetched_at = t], 1)

app_get_jwks(cache, dom, t, net) ==
    IF dom = NoneStr
    THEN KeysResult(TRUE, NoneDoc, cache, 0)                    \* RuntimeError
    ELSE IF JwksTruthy(cache.jwks) /\ t - cache.fetched_at < cache.ttl
    THEN KeysResult(FALSE, cache.jwks, cache, 0)
    ELSE IF net = NetError
    THEN KeysResult(TRUE, NoneDoc, cache, 1)     \* requests.get / raise_for_status
    ELSE KeysResult(FALSE, net, [cache EXCEPT !.jwks = net, !.fetched_at = t], 1)

\* auth.py get_jwks(); with no AUTH0_DOMAIN the URL names no host and the
\* fetch fails
auth_get_jwks(cache, dom, t, net) ==
    IF JwksTruthy(cache.jwks) /\ (t - cache.fetched_at) < cache.ttl
    THEN KeysResult(FALSE, cache.jwks, cache, 0)
    ELSE IF net = NetError \/ dom = NoneStr
    THEN KeysResult(TRUE, NoneDoc, cache, 1)
    ELSE KeysResult(FALSE, net, [cache EXCEPT !.jwks = net, !.fetched_at = t], 1)

(***************************************************************************)
(* The decorators                                                          *)
(***************************************************************************)
\* The outcome of a decorated call before the handler body: the handler
\* runs with current_user, or the request is answered with status / error
AuthRun(user, cache, f) ==
    [run |-> TRUE, status |-> 0, error |-> "", current_user |-> user,
     cache |-> cache, fetches |-> f]
MutAuthRejectRuns(status, err, cache, f) ==
    [run |-> TRUE, status |-> status, error |-> err, current_user |-> NoneDoc,
     cache |-> cache, fetches |-> f]
AuthReject(status, err, cache, f) ==
    [run |-> FALSE, status |-> status, error |-> err, current_user |-> NoneDoc,
     cache |-> cache, fetches |-> f]

\* the rsa_key loop of app.py:116-126: the first key with the token's kid
RECURSIVE FirstKey(_, _)
FirstKey(keys, kid) ==
    IF keys = <<>> THEN EmptyDict
    ELSE IF Head(keys).kid = kid THEN Head(keys)
    ELSE FirstKey(Tail(keys), kid)

\* the rsa_key loop of auth.py:72-81 (no break): the last key with the kid
RECURSIVE LastKey(_, _)
LastKey(keys, kid) ==
    IF keys = <<>> THEN EmptyDict
    ELSE IF keys[Len(keys)].kid = kid THEN keys[Len(keys)]
    ELSE LastKey(SubSeq(keys, 1, Len(keys) - 1), kid)

Range(s) == {s[i] : i \in DOMAIN s}

\* app.py:147-148
MutScopesListNoSplit(payload) ==
    IF payload.scope.kind = "str" THEN <<payload.scope.value>> ELSE <<>>

scopes_list(payload) ==
    IF payload.scope.kind = "absent" THEN split(<<>>)     \* .get("scope", "")
    ELSE IF payload.scope.kind = "nonstr" THEN <<>>       \* not isinstance str
    ELSE split(payload.scope.value)

ScopeFalsy(required_scope) == required_scope \in {NoneStr, ""}

\* app.py requires_auth_api(required_scope) ... decorated(), up to the call
\* of f. An exception that nothing catches is Flask's 500.
requires_auth_api(required_scope, testing, auth, cache, dom, t, net) ==
    IF testing THEN AuthRun([sub |-> "test-user"], cache, 0)
    ELSE IF StrFalsy(auth)
    THEN AuthReject(401, "Authorization header missing", cache, 0)
    ELSE LET parts == split(auth.value) IN
    IF parts = <<>>
    THEN AuthReject(500, "IndexError", cache, 0)                 \* parts[0]
    ELSE IF lower(parts[1]) # "bearer" \/ Len(parts) # 2
    THEN AuthReject(401, "Invalid Authorization header", cache, 0)
    ELSE LET token == parts[2]
             unverified_header == get_unverified_header(token) IN
    IF unverified_header.raised
    THEN AuthReject(401, "Invalid token header", cache, 0)
    ELSE LET g == app_get_jwks(cache, dom, t, net) IN
    IF g.raised
    THEN AuthReject(500, "Erro ao buscar JWKS", g.cache, g.fetches)
    ELSE LET rsa_key == FirstKey(JwksKeys(g.jwks), unverified_header.kid) IN
    IF rsa_key = EmptyDict
    THEN AuthReject(401, "Appropriate JWK not found", g.cache, g.fetches)
    ELSE LET d == jwt_decode(token, rsa_key, Audience, Issuer(dom)) IN
    IF d = "ExpiredSignatureError"
    THEN AuthReject(401, "Token expired", g.cache, g.fetches)
    ELSE IF d # "ok"
    THEN AuthReject(401, "Token invalido", g.cache, g.fetches)
    ELSE IF ~ScopeFalsy(required_scope)
            /\ required_scope \notin Range(scopes_list(Payload(token)))
    THEN AuthReject(403, "Insufficient scope", g.cache, g.fetches)
    ELSE AuthRun(Payload(token), g.cache, g.fetches)

\* auth.py _get_token_auth_header(): the token, or the AuthError / exception
get_token_auth_header(auth) ==
    IF StrFalsy(auth)
    THEN [raised |-> TRUE, status |-> 401, error |-> "authorization_header_missing",
          token |-> NoneStr]
    ELSE LET parts == split(auth.value) IN
    IF parts = <<>>
    THEN [raised |-> TRUE, status |-> 500, error |-> "IndexError", token |-> NoneStr]
    ELSE IF lower(parts[1]) # "bearer"
    THEN [raised |-> TRUE, status |-> 401, error |-> "invalid_header", token |-> NoneStr]
    ELSE IF Len(parts) = 1
    THEN [raised |-> TRUE, status |-> 401, error |-> "invalid_header", token |-> NoneStr]
    ELSE IF Len(parts) > 2
    THEN [raised |-> TRUE, status |-> 401, error |-> "invalid_header", token |-> NoneStr]
    ELSE [raised |-> FALSE, status |-> 0, error |-> "", token |-> parts[2]]

\* auth.py requires_auth(required_scope) ... wrapper(), up to the call of f,
\* with register_auth_error_handlers() in place: an AuthError is answered
\* with its status_code, any other exception is Flask's 500.
requires_auth(required_scope, testing, auth, cache, dom, t, net) ==
    IF testing THEN AuthRun(EmptyDict, cache, 0)
    ELSE LET h == get_token_auth_header(auth) IN
    IF h.raised THEN AuthReject(h.status, h.error, cache, 0)
    ELSE LET token == h.token
             g == auth_get_jwks(cache, dom, t, net) IN
    IF g.raised
    THEN AuthReject(500, "requests exception", g.cache, g.fetches)
    ELSE LET unverified_header == get_unverified_header(token) IN
    IF unverified_header.raised
    THEN AuthReject(401, "invalid_header", g.cache, g.fetches)
    ELSE LET rsa_key == LastKey(JwksKeys(g.jwks), unverified_header.kid) IN
    IF rsa_key = EmptyDict
    THEN AuthReject(401, "invalid_header", g.cache, g.fetches)
    ELSE LET d == jwt_decode(token, rsa_key, Audience, Issuer(dom)) IN
    IF d = "ExpiredSignatureError"
    THEN AuthReject(401, "token_expired", g.cache, g.fetches)
    ELSE IF d = "JWTClaimsError"
    THEN AuthReject(401, "invalid_claims", g.cache, g.fetches)
    ELSE IF d # "ok"
    THEN AuthReject(401, "invalid_token", g.cache, g.fetches)
    ELSE IF ~ScopeFalsy(required_scope) /\ Payload(token).scope = NonStrScope
    THEN AuthReject(500, "AttributeError", g.cache, g.fetches)   \* .split()
    ELSE IF ~ScopeFalsy(required_scope)
            /\ required_scope \notin Range(scopes_list(Payload(token)))
    THEN AuthReject(403, "insufficient_scope", g.cache, g.fetches)
    ELSE AuthRun(Payload(token), g.cache, g.fetches)

(***************************************************************************)
(* Direct calls of get-keys and of the decorators (around any handler f)   *)
(***************************************************************************)
NoCall ==
    [n |-> 0, impl |-> "none", op |-> "none", scope |-> NoneStr, auth |-> NoHeader,
     run |-> FALSE, status |-> 0, error |-> "", fetches |-> 0, raised |-> FALSE,
     jwks |-> NoneDoc, current_user |-> NoneDoc]

\* auth.py keeps its cache in two globals and its TTL in JWKS_CACHE_TTL
AuthCache == [jwks |-> cached_jwks, fetched_at |-> cached_jwks_ts, ttl |-> TTL]

KeysCall(impl, g) ==
    [n |-> call.n + 1, impl |-> impl, op |-> "get_keys", scope |-> NoneStr,
     auth |-> NoHeader, run |-> FALSE, status |-> 0, error |-> "",
     fetches |-> g.fetches, raised |-> g.raised, jwks |-> g.jwks,
     current_user |-> NoneDoc]

GuardedCall(impl, scope, auth, a) ==
    [n |-> call.n + 1, impl |-> impl, op |-> "decorated", scope |-> scope,
     auth |-> auth, run |-> a.run, status |-> a.status, error |-> a.error,
     fetches |-> a.fetches, raised |-> FALSE, jwks |-> NoneDoc,
     current_user |-> a.current_user]

\* a call of app._get_jwks()
AppGetJwks(net) ==
    /\ call.n < MaxCalls
    /\ LET g == app_get_jwks(JWKS_CACHE, AUTH0_DOMAIN, now, net) IN
       /\ JWKS_CACHE' = g.cache
       /\ call' = KeysCall("app", g)
    /\ UNCHANGED <<TESTING, AUTH0_DOMAIN, now, ticks, cached_jwks, cached_jwks_ts,
                   dbVars, req>>

\* a call of auth.get_jwks()
AuthGetJwks(net) ==
    /\ call.n < MaxCalls
    /\ LET g == auth_get_jwks(AuthCache, AUTH0_DOMAIN, now, net) IN
       /\ cached_jwks' = g.cache.jwks
       /\ cached_jwks_ts' = g.cache.fetched_at
       /\ call' = KeysCall("auth", g)
    /\ UNCHANGED <<TESTING, AUTH0_DOMAIN, now, ticks, JWKS_CACHE, dbVars, req>>

\* a request to a handler decorated with app.requires_auth_api(scope)
AppDecorated(scope, auth, net) ==
    /\ call.n < MaxCalls
    /\ LET a == requires_auth_api(scope, TESTING, auth, JWKS_CACHE, AUTH0_DOMAIN,
                                  now, net) IN
       /\ JWKS_CACHE' = a.cache
       /\ call' = GuardedCall("app", scope, auth, a)
    /\ UNCHANGED <<TESTING, AUTH0_DOMAIN, now, ticks, cached_jwks, cached_jwks_ts,
                   dbVars, req>>

\* a request to a handler decorated with auth.requires_auth(scope)
AuthDecorated(scope, auth, net) ==
    /\ call.n < MaxCalls
    /\ LET a == requires_auth(scope, TESTING, auth, AuthCache, AUTH0_DOMAIN,
                              now, net) IN
       /\ cached_jwks' = a.cache.jwks
       /\ cached_jwks_ts' = a.cache.fetched_at
       /\ call' = GuardedCall("auth", scope, auth, a)
    /\ UNCHANGED <<TESTING, AUTH0_DOMAIN, now, ticks, JWKS_CACHE, dbVars, req>>

\* the clock advances
Tick(d) ==
    /\ ticks < MaxTicks
    /\ now' = now + d
    /\ ticks' = ticks + 1
    /\ UNCHANGED <<TESTING, AUTH0_DOMAIN, authVars, dbVars, req>>

(***************************************************************************)
(* Mongo collections and ObjectId                                          *)
(***************************************************************************)
\* str(ObjectId) and ObjectId(str): an id string is the 24 hex digits of an
\* ObjectId, or some other text that ObjectId() refuses
Str(oid) == <<"oid", oid>>
BadId == <<"not-an-object-id">>
NoId == <<>>
ObjectIdOk(s) == Len(s) = 2 /\ s[1] = "oid"
ObjectId(s) == s[2]

\* time.strftime("%Y-%m-%dT%H:%M:%SZ", time.gmtime())
strftime(t) == <<"Z", t>>

\* collection.find_one({"_id": oid}) / find_one(filter on the key pair)
Matching(coll, oid) == {d \in coll : d._id = oid}
FindById(coll, oid) ==
    IF Matching(coll, oid) = {} THEN NoneDoc ELSE CHOOSE d \in Matching(coll, oid) : TRUE

\* collection.replace_one({"_id": oid}, doc, upsert=True)
ReplaceById(coll, oid, doc) == (coll \ Matching(coll, oid)) \cup {doc}

\* $set of the fields of upd on doc
SetFields(doc, upd) ==
    [k \in DOMAIN doc \cup DOMAIN upd |-> IF k \in DOMAIN upd THEN upd[k] ELSE doc[k]]

\* collection.update_one({"_id": oid}, {"$set": upd}, upsert=True)
UpdateById(coll, oid, upd) ==
    IF Matching(coll, oid) = {}
    THEN coll \cup {SetFields([_id |-> oid], upd)}
    ELSE (coll \ Matching(coll, oid)) \cup {SetFields(FindById(coll, oid), upd)}

KeyFalsy(k) == ~k.present \/ k.value = ""       \* not idempotency_key

IdemMatching(coll, collection_name, k) ==
    {d \in coll : d.collection = collection_name /\ d.idempotency_key = k.value}

\* app.py get_idempotency_record
MutGetIdempotencyNever(coll, collection_name, k) == NoneDoc

get_idempotency_record(coll, collection_name, k) ==
    IF KeyFalsy(k) THEN NoneDoc
    ELSE IF IdemMatching(coll, collection_name, k) = {} THEN NoneDoc
    ELSE CHOOSE d \in IdemMatching(coll, collection_name, k) : TRUE

\* app.py save_idempotency_record: the collection afterwards
MutSaveRemovesOnConflict(coll, collection_name, k, resource) ==
    IF KeyFalsy(k) THEN coll
    ELSE IF IdemMatching(coll, collection_name, k) # {}
    THEN coll \ IdemMatching(coll, collection_name, k)
    ELSE coll \cup {[collection |-> collection_name, idempotency_key |-> k.value,
                     resource |-> resource]}

save_idempotency_record(coll, collection_name, k, resource) ==
    IF KeyFalsy(k) THEN coll
    ELSE (coll \ {get_idempotency_record(coll, collection_name, k)})
         \cup {[collection |-> collection_name, idempotency_key |-> k.value,
                resource |-> resource]}

(***************************************************************************)
(* Requests                                                                *)
(***************************************************************************)
NoBody == [error |-> ""]

NoKey == [present |-> FALSE, value |-> ""]     \* no Idempotency-Key header

\* A request: what the client sent, where the handler is, the handler's
\* locals, the response, and what became of the calls it made to the
\* identity provider (fetch), the idempotency store (idem) and the snapshot
\* store (snap): "none" (not called), "ok" or "failed" (the call raised)
NoRequest ==
    [pc |-> "idle", method |-> "", auth |-> NoHeader, key |-> NoKey,
     dados |-> NoneDoc, id |-> NoId, current_user |-> NoneDoc,
     tarefa_id |-> 0, tarefa_doc |-> NoneDoc, atualizada |-> NoneDoc,
     status |-> 0, body |-> NoBody,
     fetch |-> "none", idem |-> "none", snap |-> "none"]

\* the request is answered
Respond(q, status, body) == [q EXCEPT !.pc = "done", !.status = status, !.body = body]

ErrorBody(msg) == [error |-> msg]

\* where Flask routes the request once the decorator lets it through
FirstStage(method) ==
    CASE method = "GET" -> "listar_tarefas"
      [] method = "POST" -> "criar_tarefa"
      [] method = "PUT" -> "atualizar_tarefa"
      [] method = "DELETE" -> "deletar_tarefa"

\* Request r arrives at a route of app.py, all four decorated with
\* requires_auth_api() (no required scope): the decorator answers it, or
\* lets the handler start with request.current_user set
Dispatch(r, method, auth, key, dados, id, net) ==
    /\ req[r].pc = "idle"
    /\ \A r2 \in Req : r2 < r => req[r2].pc # "idle"
    /\ LET a == requires_auth_api(NoneStr, TESTING, auth, JWKS_CACHE, AUTH0_DOMAIN,
                                  now, net)
           q == [NoRequest EXCEPT !.method = method, !.auth = auth, !.key = key,
                                  !.dados = dados, !.id = id,
                                  !.fetch = IF a.fetches = 0 THEN "none"
                                            ELSE IF net = NetError THEN "failed"
                                            ELSE "ok"]
       IN /\ JWKS_CACHE' = a.cache
          /\ req' = [req EXCEPT ![r] =
                IF a.run
                THEN [q EXCEPT !.pc = FirstStage(method),
                               !.current_user = a.current_user]
                ELSE Respond(q, a.status, ErrorBody(a.error))]
    /\ UNCHANGED <<TESTING, AUTH0_DOMAIN, now, ticks, cached_jwks, cached_jwks_ts,
                   call, dbVars>>

\* the Task DTO of a stored document
MutTaskDTONotConcluida(t) ==
    [id |-> Str(t._id), titulo |-> t.titulo, descricao |-> t.descricao,
     concluida |-> FALSE]

TaskDTO(t) ==
    [id |-> Str(t._id), titulo |-> t.titulo, descricao |-> t.descricao,
     concluida |-> t.concluida]

\* the documents of a collection in _id order
RECURSIVE InOrder(_, _)
InOrder(coll, from) ==
    IF from >= nextId THEN <<>>
    ELSE IF Matching(coll, from) = {} THEN InOrder(coll, from + 1)
    ELSE <<TaskDTO(FindById(coll, from))>> \o InOrder(coll, from + 1)

\* app.py listar_tarefas
listar_tarefas(r) ==
    /\ req[r].pc = "listar_tarefas"
    /\ req' = [req EXCEPT ![r] = Respond(@, 200, [items |-> InOrder(tarefas, 1)])]
    /\ UNCHANGED <<TESTING, AUTH0_DOMAIN, now, ticks, authVars, dbVars>>

DadosFalsy(d) == d = NoneDoc \/ d = EmptyDict

\* app.py criar_tarefa, lines 278-285: the body check, then the lookup of
\* the idempotency record; find_raises: the idempotency store fails
MutCriarCheckAfterLookup(r, find_raises) ==
    /\ req[r].pc = "criar_tarefa"
    /\ find_raises => ~KeyFalsy(req[r].key)
    /\ LET q == req[r]
           existing == get_idempotency_record(idempotency, "tarefas", q.key) IN
       req' = [req EXCEPT ![r] =
          IF find_raises THEN Respond(q, 500, ErrorBody("Internal Server Error"))
          ELSE IF existing # NoneDoc THEN Respond(q, 200, existing.resource)
          ELSE IF DadosFalsy(q.dados) \/ "descricao" \notin DOMAIN q.dados
          THEN Respond(q, 400, ErrorBody("Campo 'descricao' obrigatorio"))
          ELSE [q EXCEPT !.pc = "criar_insert"]]
    /\ UNCHANGED <<TESTING, AUTH0_DOMAIN, now, ticks, authVars, dbVars>>

MutCriarIgnoresExisting(r, find_raises) ==
    /\ req[r].pc = "criar_tarefa"
    /\ LET q == req[r]
           invalid == DadosFalsy(q.dados) \/ "descricao" \notin DOMAIN q.dados IN
       /\ find_raises => ~invalid /\ ~KeyFalsy(q.key)
       /\ req' = [req EXCEPT ![r] =
            IF invalid
            THEN Respond(q, 400, ErrorBody("Campo 'descricao' obrigatorio"))
            ELSE IF find_raises
            THEN Respond(q, 500, ErrorBody("Internal Server Error"))
            ELSE [q EXCEPT !.pc = "criar_insert"]]
    /\ UNCHANGED <<TESTING, AUTH0_DOMAIN, now, ticks, authVars, dbVars>>

criar_tarefa(r, find_raises) ==
    /\ req[r].pc = "criar_tarefa"
    /\ LET invalid == DadosFalsy(req[r].dados) \/ "descricao" \notin DOMAIN req[r].dados
           q == [req[r] EXCEPT !.idem = IF invalid \/ KeyFalsy(req[r].key) THEN "none"
                                        ELSE IF find_raises THEN "failed"
                                        ELSE "ok"]
           existing == get_idempotency_record(idempotency, "tarefas", q.key) IN
       /\ find_raises => ~invalid /\ ~KeyFalsy(q.key)
       /\ req' = [req EXCEPT ![r] =
            IF invalid
            THEN Respond(q, 400, ErrorBody("Campo 'descricao' obrigatorio"))
            ELSE IF find_raises
            THEN Respond(q, 500, ErrorBody("Internal Server Error"))
            ELSE IF existing # NoneDoc THEN Respond(q, 200, existing.resource)
            ELSE [q EXCEPT !.pc = "criar_insert"]]
    /\ UNCHANGED <<TESTING, AUTH0_DOMAIN, now, ticks, authVars, dbVars>>

\* criar_tarefa, lines 287-295: the document and insert_one
MutTarefaDocConcluida(q) ==
    [titulo |-> Get(q.dados, "titulo", ""),
     descricao |-> q.dados.descricao,
     concluida |-> Get(q.dados, "concluida", TRUE),
     owner |-> Get(q.current_user, "sub", NoneStr),
     criado_em |-> strftime(now),
     atualizado_em |-> strftime(now)]

TarefaDoc(q) ==
    [titulo |-> Get(q.dados, "titulo", ""),
     descricao |-> q.dados.descricao,
     concluida |-> Get(q.dados, "concluida", FALSE),
     owner |-> Get(q.current_user, "sub", NoneStr),
     criado_em |-> strftime(now),
     atualizado_em |-> strftime(now)]

criar_insert(r) ==
    /\ req[r].pc = "criar_insert"
    /\ LET doc == TarefaDoc(req[r]) IN
       /\ tarefas' = tarefas \cup {SetFields(doc, [_id |-> nextId])}
       /\ nextId' = nextId + 1
       /\ req' = [req EXCEPT ![r] = [@ EXCEPT !.pc = "criar_snapshot",
                                              !.tarefa_id = nextId,
                                              !.tarefa_doc = doc]]
    /\ UNCHANGED <<TESTING, AUTH0_DOMAIN, now, ticks, authVars, task_snapshots,
                   idempotency>>

\* criar_tarefa, lines 298-310: the snapshot, best effort
MutCriarSnapshotSurfaces(r, snapshot_raises) ==
    /\ req[r].pc = "criar_snapshot"
    /\ req' = [req EXCEPT ![r] =
          IF snapshot_raises
          THEN Respond([@ EXCEPT !.snap = "failed"], 500,
                       ErrorBody("Internal Server Error"))
          ELSE [@ EXCEPT !.pc = "criar_save", !.snap = "ok"]]
    /\ UNCHANGED <<TESTING, AUTH0_DOMAIN, now, ticks, authVars, dbVars>>

criar_snapshot(r, snapshot_raises) ==
    /\ req[r].pc = "criar_snapshot"
    /\ LET q == req[r]
           snapshot == [_id |-> q.tarefa_id, titulo |-> q.tarefa_doc.titulo,
                        descricao |-> q.tarefa_doc.descricao,
                        owner |-> q.tarefa_doc.owner, status |-> "open",
                        criado_em |-> q.tarefa_doc.criado_em,
                        atualizado_em |-> q.tarefa_doc.atualizado_em] IN
       task_snapshots' = IF snapshot_raises THEN task_snapshots
                         ELSE ReplaceById(task_snapshots, q.tarefa_id, snapshot)
    /\ req' = [req EXCEPT ![r] =
                  [@ EXCEPT !.pc = "criar_save",
                            !.snap = IF snapshot_raises THEN "failed" ELSE "ok"]]
    /\ UNCHANGED <<TESTING, AUTH0_DOMAIN, now, ticks, authVars, tarefas, idempotency,
                   nextId>>

\* criar_tarefa, lines 312-328: the resource, the idempotency record, 201
MutResourceNotConcluida(q) ==
    [id |-> Str(q.tarefa_id), titulo |-> q.tarefa_doc.titulo,
     descricao |-> q.tarefa_doc.descricao, concluida |-> FALSE]

Resource(q) ==
    [id |-> Str(q.tarefa_id), titulo |-> q.tarefa_doc.titulo,
     descricao |-> q.tarefa_doc.descricao, concluida |-> q.tarefa_doc.concluida]

MutCriarSaveSwallows(r, save_raises) ==
    /\ req[r].pc = "criar_save"
    /\ save_raises => ~KeyFalsy(req[r].key)
    /\ LET q == req[r] IN
       /\ idempotency' =
             IF save_raises THEN idempotency
             ELSE save_idempotency_record(idempotency, "tarefas", q.key, Resource(q))
       /\ req' = [req EXCEPT ![r] =
             Respond([q EXCEPT !.idem = IF save_raises THEN "failed" ELSE @],
                     201, Resource(q))]
    /\ UNCHANGED <<TESTING, AUTH0_DOMAIN, now, ticks, authVars, tarefas,
                   task_snapshots, nextId>>

criar_save(r, save_raises) ==
    /\ req[r].pc = "criar_save"
    /\ save_raises => ~KeyFalsy(req[r].key)
    /\ LET q == req[r] IN
       IF save_raises
       THEN /\ req' = [req EXCEPT ![r] =
                          Respond([q EXCEPT !.idem = "failed"], 500,
                                  ErrorBody("Internal Server Error"))]
            /\ UNCHANGED idempotency
       ELSE /\ idempotency' =
                  save_idempotency_record(idempotency, "tarefas", q.key, Resource(q))
            /\ req' = [req EXCEPT ![r] = Respond(q, 201, Resource(q))]
    /\ UNCHANGED <<TESTING, AUTH0_DOMAIN, now, ticks, authVars, tarefas,
                   task_snapshots, nextId>>

\* atualizar_tarefa, lines 340-348
MutUpdateFieldsAll(dados) ==
    SetFields([k \in DOMAIN dados \ {"py_dict"} |-> dados[k]],
              [atualizado_em |-> strftime(now)])

MutUpdateFieldsReplace(dados) ==
    [titulo |-> Get(dados, "titulo", ""), descricao |-> Get(dados, "descricao", ""),
     concluida |-> Get(dados, "concluida", FALSE), atualizado_em |-> strftime(now)]

UpdateFields(dados) ==
    SetFields([k \in (DOMAIN dados \cap {"titulo", "descricao", "concluida"})
                  |-> dados[k]],
              [atualizado_em |-> strftime(now)])

\* app.py atualizar_tarefa, lines 334-356: find_one_and_update
atualizar_tarefa(r) ==
    /\ req[r].pc = "atualizar_tarefa"
    /\ LET q == req[r]
           dados == IF DadosFalsy(q.dados) THEN EmptyDict ELSE q.dados
           obj_id == ObjectId(q.id)
           found == FindById(tarefas, obj_id)
           atualizada == SetFields(found, UpdateFields(dados)) IN
       IF ~ObjectIdOk(q.id)
       THEN /\ req' = [req EXCEPT ![r] = Respond(q, 400, ErrorBody("ID invalido"))]
            /\ UNCHANGED tarefas
       ELSE IF found = NoneDoc
       THEN /\ req' = [req EXCEPT ![r] =
                          Respond(q, 404, ErrorBody("Tarefa nao encontrada"))]
            /\ UNCHANGED tarefas
       ELSE /\ tarefas' = ReplaceById(tarefas, obj_id, atualizada)
            /\ req' = [req EXCEPT ![r] = [q EXCEPT !.pc = "atualizar_snapshot",
                                                   !.atualizada = atualizada]]
    /\ UNCHANGED <<TESTING, AUTH0_DOMAIN, now, ticks, authVars, task_snapshots,
                   idempotency, nextId>>

\* atualizar_tarefa, lines 358-374: the snapshot, best effort, and 200
atualizar_snapshot(r, snapshot_raises) ==
    /\ req[r].pc = "atualizar_snapshot"
    /\ LET q == req[r]
           upd == [titulo |-> q.atualizada.titulo,
                   descricao |-> q.atualizada.descricao,
                   status |-> IF ~q.atualizada.concluida THEN "open" ELSE "done",
                   atualizado_em |-> q.atualizada.atualizado_em] IN
       /\ task_snapshots' = IF snapshot_raises THEN task_snapshots
                            ELSE UpdateById(task_snapshots, q.atualizada._id, upd)
       /\ req' = [req EXCEPT ![r] =
              Respond([q EXCEPT !.snap = IF snapshot_raises THEN "failed" ELSE "ok"],
                      200, TaskDTO(q.atualizada))]
    /\ UNCHANGED <<TESTING, AUTH0_DOMAIN, now, ticks, authVars, tarefas, idempotency,
                   nextId>>

\* app.py deletar_tarefa, lines 380-387: delete_one
MutDeletarKeepsTask(r) ==
    /\ req[r].pc = "deletar_tarefa"
    /\ LET q == req[r]
           obj_id == ObjectId(q.id) IN
       req' = [req EXCEPT ![r] =
          IF ~ObjectIdOk(q.id) THEN Respond(q, 400, ErrorBody("ID invalido"))
          ELSE IF Matching(tarefas, obj_id) = {}
          THEN Respond(q, 404, ErrorBody("Tarefa nao encontrada"))
          ELSE [q EXCEPT !.pc = "deletar_snapshot"]]
    /\ UNCHANGED <<TESTING, AUTH0_DOMAIN, now, ticks, authVars, dbVars>>

deletar_tarefa(r) ==
    /\ req[r].pc = "deletar_tarefa"
    /\ LET q == req[r]
           obj_id == ObjectId(q.id) IN
       IF ~ObjectIdOk(q.id)
       THEN /\ req' = [req EXCEPT ![r] = Respond(q, 400, ErrorBody("ID invalido"))]
            /\ UNCHANGED tarefas
       ELSE IF Matching(tarefas, obj_id) = {}
       THEN /\ req' = [req EXCEPT ![r] =
                          Respond(q, 404, ErrorBody("Tarefa nao encontrada"))]
            /\ UNCHANGED tarefas
       ELSE /\ tarefas' = tarefas \ Matching(tarefas, obj_id)
            /\ req' = [req EXCEPT ![r] = [q EXCEPT !.pc = "deletar_snapshot"]]
    /\ UNCHANGED <<TESTING, AUTH0_DOMAIN, now, ticks, authVars, task_snapshots,
                   idempotency, nextId>>

\* deletar_tarefa, lines 389-395: the snapshot, best effort, and 200
deletar_snapshot(r, snapshot_raises) ==
    /\ req[r].pc = "deletar_snapshot"
    /\ task_snapshots' =
          IF snapshot_raises THEN task_snapshots
          ELSE task_snapshots \ Matching(task_snapshots, ObjectId(req[r].id))
    /\ req' = [req EXCEPT ![r] =
                  Respond([@ EXCEPT !.snap = IF snapshot_raises THEN "failed" ELSE "ok"],
                          200, [message |-> "Tarefa deletada com sucesso"])]
    /\ UNCHANGED <<TESTING, AUTH0_DOMAIN, now, ticks, authVars, tarefas, idempotency,
                   nextId>>

(***************************************************************************)
(* Inputs                                                                  *)
(***************************************************************************)
Bearer(t) == Hdr(<<"Bearer", WS, t>>)

\* Authorization header values: absent, empty, only whitespace, one word,
\* another scheme, three words, padded, and a bearer header for each token
AuthHeaders ==
    {NoHeader, Hdr(<<>>), Hdr(<<WS>>), Hdr(<<"Bearer">>), Hdr(<<"tGood">>),
     Hdr(<<"Basic", WS, "tGood">>), Hdr(<<"Bearer", WS, "tGood", WS, "extra">>),
     Hdr(<<"BEARER", WS, "tGood">>), Hdr(<<"bearer", WS, "tGood", WS>>)}
    \cup {Bearer(t) : t \in TokenWords}

Scopes == {NoneStr, "write:tasks"}
TickSteps == {1, TTL - 1}

InitCaches ==
    /\ JWKS_CACHE = [fetched_at |-> 0, jwks |-> NoneDoc, ttl |-> TTL]
    /\ cached_jwks = NoneDoc
    /\ cached_jwks_ts = 0
    /\ call = NoCall

InitDb ==
    /\ tarefas = {}
    /\ task_snapshots = {}
    /\ idempotency = {}
    /\ nextId = 1

\* The decorators and the key-set cache on their own: one of the two
\* modules per run, every header and token, a moving clock
InitAuth ==
    /\ TESTING \in BOOLEAN
    /\ AUTH0_DOMAIN \in {Domain, NoneStr}
    /\ now = 0
    /\ ticks = 0
    /\ InitCaches
    /\ InitDb
    /\ req = [r \in Req |-> NoRequest]

NextAuth ==
    \/ \E d \in TickSteps : Tick(d)
    \/ /\ call.impl \in {"none", "app"}
       /\ \/ \E net \in NetResults : AppGetJwks(net)
          \/ \E s \in Scopes, h \in AuthHeaders, net \in NetResults :
                AppDecorated(s, h, net)
    \/ /\ call.impl \in {"none", "auth"}
       /\ \/ \E net \in NetResults : AuthGetJwks(net)
          \/ \E s \in Scopes, h \in AuthHeaders, net \in NetResults :
                AuthDecorated(s, h, net)

SpecAuth == InitAuth /\ [][NextAuth]_vars

(***************************************************************************)
(* The service: requests to the four routes of app.py                      *)
(***************************************************************************)
IdemKeys == {NoKey, Hdr(""), Hdr("k1")}
CreateBodies ==
    {EmptyDict, [titulo |-> "t1"], [descricao |-> "d1"],
     [titulo |-> "t1", descricao |-> "d2", concluida |-> TRUE]}
UpdateBodies == {NoneDoc, [concluida |-> TRUE], [titulo |-> "t2", descricao |-> "d3"]}
\* the ids a client can name: text that is no id, an id no task ever had,
\* and the ids handed out so far
PathIds == {BadId, Str(0)} \cup {Str(i) : i \in 1..(nextId - 1)}
Methods == {"GET", "POST", "PUT", "DELETE"}

\* A request arrives. H: the Authorization headers sent with every kind of
\* request; B: those sent with a bare request of each method (the decorator
\* reads nothing else of a request); N: what the identity provider answers;
\* K, CB, UB, IDs: the idempotency keys, bodies and path ids sent.
Arrive(r, H, B, N, K, CB, UB, IDs) ==
    \/ \E h \in H, net \in N :
          \/ Dispatch(r, "GET", h, NoKey, NoneDoc, NoId, net)
          \/ \E k \in K, d \in CB : Dispatch(r, "POST", h, k, d, NoId, net)
          \/ \E d \in UB, id \in IDs : Dispatch(r, "PUT", h, NoKey, d, id, net)
          \/ \E id \in IDs : Dispatch(r, "DELETE", h, NoKey, NoneDoc, id, net)
    \/ \E h \in B, net \in N, m \in Methods :
          Dispatch(r, m, h, NoKey, NoneDoc, NoId, net)

\* a request in a handler takes its next step
Step(r) ==
    \/ listar_tarefas(r)
    \/ \E f \in BOOLEAN : criar_tarefa(r, f)
    \/ criar_insert(r)
    \/ \E f \in BOOLEAN : criar_snapshot(r, f)
    \/ \E f \in BOOLEAN : criar_save(r, f)
    \/ atualizar_tarefa(r)
    \/ \E f \in BOOLEAN : atualizar_snapshot(r, f)
    \/ deletar_tarefa(r)
    \/ \E f \in BOOLEAN : deletar_snapshot(r, f)

\* no request is being handled
Quiet == \A r \in Req : req[r].pc \in {"idle", "done"}

InitService ==
    /\ AUTH0_DOMAIN = Domain
    /\ now = 0
    /\ ticks = 0
    /\ InitCaches
    /\ InitDb
    /\ req = [r \in Req |-> NoRequest]

\* With TESTING the decorator never reads the header
PassHeaders == IF TESTING THEN {NoHeader} ELSE {Bearer("tGood")}
BareHeaders == IF TESTING THEN {} ELSE {NoHeader}
ServiceNet == IF TESTING THEN {NetError} ELSE {Jwks(<<KeyA>>)}

(***************************************************************************)
(* Spec: requests handled concurrently, each handler step on its own       *)
(***************************************************************************)
Init == TESTING = TRUE /\ InitService

Next ==
    \E r \in Req :
        \/ Arrive(r, {NoHeader}, {}, {NetError}, {NoKey, Hdr("k1")},
                  {[descricao |-> "d1"]}, {[concluida |-> TRUE]},
                  {Str(i) : i \in 1..(nextId - 1)})
        \/ Step(r)

Spec == Init /\ [][Next]_vars

(***************************************************************************)
(* SpecSeq: requests handled one after the other                           *)
(***************************************************************************)
InitSeq == TESTING \in BOOLEAN /\ InitService

NextSeq ==
    \E r \in Req :
        \/ /\ Quiet
           /\ Arrive(r, PassHeaders, BareHeaders, ServiceNet, IdemKeys,
                     CreateBodies, UpdateBodies, PathIds)
        \/ Step(r)

SpecSeq == InitSeq /\ [][NextSeq]_vars

(***************************************************************************)
(* SpecGate: the decorator in front of the routes, every header and token  *)
(***************************************************************************)
MaxGateReq == 2
GateNet == {NetError, Jwks(<<KeyA>>), Jwks(<<KeyB>>)}

InitGate == TESTING \in BOOLEAN /\ InitService

NextGate ==
    \E r \in 1..MaxGateReq :
        \/ /\ Quiet
           /\ Arrive(r, PassHeaders, IF TESTING THEN {} ELSE AuthHeaders \ PassHeaders,
                     IF TESTING THEN {NetError} ELSE GateNet,
                     {Hdr("k1")}, {[descricao |-> "d1"]}, {[concluida |-> TRUE]},
                     PathIds)
        \/ Step(r)

SpecGate == InitGate /\ [][NextGate]_vars

(***************************************************************************)
(* Key-set cache: C4, C5                                                   *)
(***************************************************************************)
\* the cache of the module a call went to, before and after the call
CacheOf(impl) == IF impl = "app" THEN JWKS_CACHE ELSE AuthCache
CacheAfter(impl) ==
    IF impl = "app" THEN JWKS_CACHE'
    ELSE [jwks |-> cached_jwks', fetched_at |-> cached_jwks_ts', ttl |-> TTL]

\* a non-empty cached set younger than the TTL
Fresh(c, t) == c.jwks \notin {NoneDoc, EmptyDict} /\ t - c.fetched_at < 3600

\* this step is a get-keys call
KeysCallStep == call'.n = call.n + 1 /\ call'.op = "get_keys"

\* a fresh set is served from the cache without a fetch; an expired or
\* empty one costs exactly one fetch, which on success replaces the set
\* and the timestamp
FreshnessStep ==
    LET c == CacheOf(call'.impl)
        c2 == CacheAfter(call'.impl) IN
    IF Fresh(c, now)
    THEN call'.fetches = 0 /\ ~call'.raised /\ call'.jwks = c.jwks /\ c2 = c
    ELSE /\ call'.fetches = 1
         /\ ~call'.raised => c2.jwks = call'.jwks /\ c2.fetched_at = now

\* C4 as stated: every get-keys call serves a fresh cached set without a
\* fetch and otherwise makes exactly one fetch.
C4_AsStated == [][KeysCallStep => FreshnessStep]_vars

\* C4 amended: the same, for every call with AUTH0_DOMAIN configured and for
\* every call of auth.get_jwks; app._get_jwks with no AUTH0_DOMAIN raises
\* before it reads the cache, makes no fetch and leaves the cache alone.
C4_Freshness ==
    [][KeysCallStep =>
         IF call'.impl = "app" /\ AUTH0_DOMAIN = NoneStr
         THEN call'.raised /\ call'.fetches = 0 /\ JWKS_CACHE' = JWKS_CACHE
         ELSE FreshnessStep]_vars

\* a second get-keys call, later but within the TTL, was a cache hit
C4_Witness ==
    /\ call.op = "get_keys" /\ call.n = 2 /\ now > 0
    /\ call.fetches = 0 /\ ~call.raised /\ call.jwks = Jwks(<<KeyA>>)

\* C5 as stated: a get-keys call fails with the fetch error only when no
\* key set is cached (a cached set, even an expired one, is returned
\* instead), and a failed fetch never changes the cache.
C5_FallbackToExpired ==
    [][KeysCallStep /\ call'.raised /\ call'.fetches = 1 =>
         LET c == CacheOf(call'.impl) IN
         c.jwks \in {NoneDoc, EmptyDict} /\ CacheAfter(call'.impl) = c]_vars

(***************************************************************************)
(* Scope check: C8                                                         *)
(***************************************************************************)
\* the words of a scope claim; an absent claim has none
ScopeWords(w) ==
    IF Jwt(w).scope.kind = "str"
    THEN {Jwt(w).scope.value[i] : i \in {j \in DOMAIN Jwt(w).scope.value :
                                            Jwt(w).scope.value[j] # WS}}
    ELSE {}

\* the key a module picks from a key set for a key id, if any
PickedKeys(impl, jwks, kid) ==
    LET ks == IF "keys" \in DOMAIN jwks THEN jwks.keys ELSE <<>>
        hits == {i \in DOMAIN ks : ks[i].kid = kid} IN
    IF hits = {} THEN {}
    ELSE IF impl = "app" THEN {ks[CHOOSE i \in hits : \A j \in hits : i <= j]}
    ELSE {ks[CHOOSE i \in hits : \A j \in hits : i >= j]}

\* header h is "Bearer <token>" and the token passes signature, audience
\* and issuer validation against key set jwks
PassesValidation(impl, h, jwks) ==
    /\ h.present
    /\ LET words == SelectSeq(h.value, LAMBDA x : x # WS) IN
       /\ Len(words) = 2
       /\ words[1] \in {"Bearer", "BEARER", "bearer"}
       /\ LET t == Jwt(words[2]) IN
          /\ t.wellformed /\ t.alg = "RS256" /\ ~t.expired
          /\ t.aud = Audience /\ t.iss = Issuer(AUTH0_DOMAIN)
          /\ \E k \in PickedKeys(impl, jwks, t.kid) : k.n = t.sig_n

TokenOf(h) == SelectSeq(h.value, LAMBDA x : x # WS)[2]

\* the last call got its key set (no fetch failed)
KeysObtained == ~(call.status = 500 /\ call.fetches = 1)

IsPost(r) == req[r].method = "POST"
Done(r) == req[r].pc = "done"
\* the decorator let the request through to the handler
Entered(r) == req[r].pc # "idle" /\ req[r].current_user # NoneDoc
\* the request carries a non-empty Idempotency-Key
HasKey(r) == req[r].key.present /\ req[r].key.value # ""
\* the request inserted a Task
Inserted(r) == req[r].tarefa_id # 0
RecordsFor(r) ==
    {d \in idempotency : d.collection = "tarefas"
                         /\ d.idempotency_key = req[r].key.value}

\* C1: of two sequential POSTs with the same Idempotency-Key and the same
\* body, the first answered 201, the second (its lookup not failing) gets
\* the same resource id and body, and inserts nothing: one Task was
\* inserted for the two.
C1_SameResourceOnReplay ==
    \A r1, r2 \in Req :
        (/\ r1 < r2 /\ IsPost(r1) /\ IsPost(r2)
         /\ HasKey(r1) /\ req[r2].key = req[r1].key /\ req[r2].dados = req[r1].dados
         /\ Done(r1) /\ req[r1].status = 201
         /\ Done(r2) /\ Entered(r2) /\ req[r2].status # 500)
        => /\ req[r2].body = req[r1].body
           /\ req[r2].body.id = Str(req[r1].tarefa_id)
           /\ ~Inserted(r2)
           /\ Cardinality({r \in {r1, r2} : Inserted(r)}) = 1

\* a create answered 201 and then its replay answered with the same body
C1_Witness ==
    \E r1, r2 \in Req :
        /\ r1 < r2 /\ IsPost(r1) /\ IsPost(r2) /\ HasKey(r1)
        /\ req[r2].key = req[r1].key /\ req[r2].dados = req[r1].dados
        /\ Done(r1) /\ req[r1].status = 201
        /\ Done(r2) /\ req[r2].status = 200 /\ req[r2].body = req[r1].body
        /\ Cardinality(tarefas) = 1

\* C2 as stated: whatever a sequence of sequential POSTs with one
\* Idempotency-Key goes through, store failures and retries included, at
\* most one of them inserts a Task.
C2_AtMostOneInsertPerKey ==
    \A r1, r2 \in Req :
        (/\ r1 # r2 /\ IsPost(r1) /\ IsPost(r2) /\ HasKey(r1)
         /\ req[r2].key = req[r1].key)
        => ~(Inserted(r1) /\ Inserted(r2))

\* C3: a POST goes on to insert only if its lookup, at the moment it ran,
\* found no record for its key; the double insert under one key comes from
\* two lookups that both ran before either save, not from a skipped lookup.
C3_InsertOnlyAfterMiss ==
    [][\A r \in Req :
          (req[r].pc = "criar_tarefa" /\ req'[r].pc = "criar_insert" /\ HasKey(r))
          => RecordsFor(r) = {}]_vars

\* two requests with one fresh key both answered 201 with different ids,
\* and both Tasks stored (no store operation failed)
C3_Witness ==
    \E r1, r2 \in Req :
        /\ r1 < r2 /\ IsPost(r1) /\ IsPost(r2) /\ HasKey(r1)
        /\ req[r2].key = req[r1].key
        /\ req[r1].status = 201 /\ req[r2].status = 201
        /\ req[r1].tarefa_id # req[r2].tarefa_id
        /\ {req[r1].tarefa_id, req[r2].tarefa_id} \subseteq {t._id : t \in tarefas}

(***************************************************************************)
(* The gate in front of the routes: C6, C7                                 *)
(***************************************************************************)
\* C6: a route handler runs only with TESTING set or for a header
\* "Bearer <token>" whose token is well formed, names a key of the
\* provider's key set, is signed by it and has the audience and issuer.
C6_AuthGate ==
    \A r \in Req :
        Entered(r) =>
            \/ TESTING
            \/ \E jwks \in JwksDocs : PassesValidation("app", req[r].auth, jwks)

\* with TESTING off, a POST with a valid bearer token created a Task
C6_Witness ==
    /\ ~TESTING
    /\ \E r \in Req : /\ IsPost(r) /\ Entered(r) /\ req[r].auth = Bearer("tGood")
                      /\ Done(r) /\ req[r].status = 201

\* the header is absent, or is not exactly two words the first of which is
\* "bearer" in any case
MalformedHeader(h) ==
    \/ ~h.present
    \/ LET words == SelectSeq(h.value, LAMBDA x : x # WS) IN
       \/ Len(words) # 2
       \/ words[1] \notin {"Bearer", "BEARER", "bearer"}

\* C7 as stated: a request with an absent or malformed Authorization
\* header is answered 401 and its handler does not run.
C7_Malformed401 ==
    \A r \in Req :
        (~TESTING /\ req[r].pc # "idle" /\ MalformedHeader(req[r].auth))
        => ~Entered(r) /\ Done(r) /\ req[r].status = 401

(***************************************************************************)
(* Create: C9, C10                                                         *)
(***************************************************************************)
\* the response body is the Task DTO of the request's fields and defaults
DTOOfRequest(r) ==
    /\ DOMAIN req[r].body = {"id", "titulo", "descricao", "concluida"}
    /\ req[r].body.descricao = req[r].dados.descricao
    /\ "concluida" \notin DOMAIN req[r].dados => req[r].body.concluida = FALSE
    /\ "titulo" \notin DOMAIN req[r].dados => req[r].body.titulo = ""

\* an answered POST that reached the handler with a descricao, no store
\* operation having failed
CreateWithDescricao(r) ==
    /\ IsPost(r) /\ Done(r) /\ Entered(r)
    /\ "descricao" \in DOMAIN req[r].dados
    /\ req[r].status # 500

\* C9 as stated: every such POST is answered 201 with the DTO of its own
\* fields.
C9_AsStated ==
    \A r \in Req : CreateWithDescricao(r) => req[r].status = 201 /\ DTOOfRequest(r)

\* C9 amended: such a POST is answered 201 with the DTO of its own fields
\* when it carries no Idempotency-Key or its key has no record yet, and it
\* then inserts the Task; when its key has a record it is answered 200 with
\* the recorded resource and inserts nothing.
C9_Create ==
    \A r \in Req :
        CreateWithDescricao(r) =>
            /\ ~HasKey(r) => Inserted(r)
            /\ IF Inserted(r)
               THEN /\ req[r].status = 201 /\ DTOOfRequest(r)
                    /\ req[r].body.id = Str(req[r].tarefa_id)
               ELSE /\ req[r].status = 200
                    /\ req[r].body \in {d.resource : d \in RecordsFor(r)}

\* a POST of {descricao} alone answered 201 with concluida false, titulo ""
C9_Witness ==
    \E r \in Req :
        /\ CreateWithDescricao(r) /\ req[r].dados = [descricao |-> "d1"]
        /\ req[r].status = 201
        /\ req[r].body.concluida = FALSE /\ req[r].body.titulo = ""

\* the body is empty or has no descricao
LacksDescricao(d) == d \in {NoneDoc, EmptyDict} \/ "descricao" \notin DOMAIN d

\* C10: the handler answers a POST whose body is empty or lacks descricao
\* with 400 in its first step, record for its key or not, and that step
\* changes none of the three stores.
C10_Invalid400 ==
    [][\A r \in Req :
          (/\ req[r].pc = "criar_tarefa" /\ LacksDescricao(req[r].dados)
           /\ req'[r] # req[r])
          => /\ req'[r].pc = "done" /\ req'[r].status = 400
             /\ UNCHANGED <<tarefas, task_snapshots, idempotency>>]_vars

\* a POST without descricao, under a key that already has a record, was
\* answered 400
C10_Witness ==
    \E r \in Req :
        /\ IsPost(r) /\ Done(r) /\ req[r].status = 400
        /\ req[r].dados = [titulo |-> "t1"] /\ HasKey(r) /\ RecordsFor(r) # {}

(***************************************************************************)
(* Reading and writing Tasks, requests one after the other: C11, C12, C13  *)
(***************************************************************************)
\* the three client-visible fields a create writes, defaults included
Written(dados) ==
    [titulo |-> Get(dados, "titulo", ""), descricao |-> dados.descricao,
     concluida |-> Get(dados, "concluida", FALSE)]

\* a Task DTO after an update with body dados: the fields the body names
\* take its values, the others stay
Overwrite(e, dados) ==
    [k \in DOMAIN e |->
        IF k \in {"titulo", "descricao", "concluida"} /\ k \in DOMAIN dados
        THEN dados[k] ELSE e[k]]

\* the body of a PUT as the handler reads it (request.json or {})
PutBody(q) == IF q.dados \in {NoneDoc, EmptyDict} THEN EmptyDict ELSE q.dados

\* What the Task store must hold after the first n requests of a sequential
\* run, as a set of DTOs, told from the requests and their responses alone:
\* a POST that inserted adds its Task, a PUT answered 200 overwrites the
\* fields it names, a DELETE answered 200 removes the Task.
RECURSIVE Expected(_)
Expected(n) ==
    IF n = 0 THEN {}
    ELSE LET E == Expected(n - 1)
             q == req[n] IN
         IF q.method = "POST" /\ q.tarefa_id # 0
         THEN E \cup {SetFields(Written(q.dados), [id |-> Str(q.tarefa_id)])}
         ELSE IF q.method = "PUT" /\ q.status = 200
         THEN {IF e.id = q.id THEN Overwrite(e, PutBody(q)) ELSE e : e \in E}
         ELSE IF q.method = "DELETE" /\ q.status = 200
         THEN {e \in E : e.id # q.id}
         ELSE E

\* the Task store as DTOs
StoredDTOs == {TaskDTO(t) : t \in tarefas}

\* request r is an answered request of the method that reached its handler
Handled(r, method) == req[r].method = method /\ Done(r) /\ Entered(r)

\* the Task of the 201 answered to r1 was deleted by a request before r
DeletedBetween(r1, r) ==
    \E r2 \in Req : /\ r1 < r2 /\ r2 < r /\ Handled(r2, "DELETE")
                    /\ req[r2].status = 200 /\ req[r2].id = req[r1].body.id

\* a GET answers 200 with exactly the Tasks the requests before it left in
\* the store, each once and with the values last written, and with every
\* Task of an earlier 201 that no DELETE removed since
ListsTheStore ==
    \A r \in Req :
        Handled(r, "GET") =>
            /\ req[r].status = 200
            /\ Range(req[r].body.items) = Expected(r - 1)
            /\ Len(req[r].body.items) = Cardinality(Expected(r - 1))
            /\ \A r1 \in Req :
                  (/\ r1 < r /\ Handled(r1, "POST") /\ req[r1].status = 201
                   /\ ~DeletedBetween(r1, r))
                  => \E i \in DOMAIN req[r].body.items :
                        /\ req[r].body.items[i].id = req[r1].body.id
                        /\ req[r].body.items[i] \in Expected(r - 1)

\* the step of the GET handler changes nothing but the request's response
ListChangesNothing ==
    \A r \in Req :
        (req[r].pc = "listar_tarefas" /\ req'[r] # req[r])
        => UNCHANGED <<dbVars, authVars, TESTING, AUTH0_DOMAIN>>

\* C11: GET /tarefas returns exactly the Tasks in the store: every Task of a
\* successful POST not deleted since, under the id that POST returned and
\* with the titulo, descricao, concluida last written by its create or a
\* later successful update; and GET changes no state.
C11_ListReturnsStore == []ListsTheStore /\ [][ListChangesNothing]_vars

\* a Task was created with concluida false, updated to true, and the GET
\* after that listed it with concluida true
C11_Witness ==
    /\ Handled(1, "POST") /\ req[1].status = 201 /\ req[1].body.concluida = FALSE
    /\ Handled(2, "PUT") /\ req[2].status = 200 /\ req[2].id = req[1].body.id
    /\ req[2].dados = [concluida |-> TRUE]
    /\ Handled(3, "GET") /\ Len(req[3].body.items) = 1
    /\ req[3].body.items[1] =
          [id |-> req[1].body.id, titulo |-> req[1].body.titulo,
           descricao |-> req[1].body.descricao, concluida |-> TRUE]

\* between requests the Task store holds what the requests so far left
StoreAsExpected == Quiet => StoredDTOs = Expected(MaxReq)

\* the Tasks with the id a request names, among those the earlier requests left
Named(r) == {e \in Expected(r - 1) : e.id = req[r].id}

\* C12: a PUT on a well-formed id that no Task has is answered 404 and
\* creates no Task; on an existing Task it is answered 200 with the record
\* after the update, in which the fields of titulo, descricao, concluida
\* that the body names have the body's values and the others their prior
\* values, and that is what the store then holds.
C12_Update ==
    /\ StoreAsExpected
    /\ \A r \in Req :
          (Handled(r, "PUT") /\ ObjectIdOk(req[r].id)) =>
              IF Named(r) = {}
              THEN req[r].status = 404 /\ Expected(r) = Expected(r - 1)
              ELSE /\ req[r].status = 200
                   /\ \A e \in Named(r) :
                         /\ req[r].body = Overwrite(e, PutBody(req[r]))
                         /\ \A k \in {"titulo", "descricao", "concluida"} :
                               req[r].body[k] = IF k \in DOMAIN PutBody(req[r])
                                                THEN req[r].dados[k] ELSE e[k]

\* a Task created with concluida true was updated with a body naming titulo
\* and descricao only: 200, the two fields changed, concluida still true,
\* and the store holds that record
C12_Witness ==
    /\ Handled(1, "POST") /\ req[1].status = 201 /\ req[1].body.concluida = TRUE
    /\ Handled(2, "PUT") /\ req[2].id = req[1].body.id
    /\ req[2].dados = [titulo |-> "t2", descricao |-> "d3"]
    /\ req[2].status = 200
    /\ req[2].body = [id |-> req[1].body.id, titulo |-> "t2", descricao |-> "d3",
                      concluida |-> TRUE]
    /\ StoredDTOs = {req[2].body}

\* C13: a DELETE on a well-formed id is answered 200 exactly when a Task
\* with that id was in the store, and that call removed it; otherwise 404
\* and the store is as before. So a Task is never in the store after a 200
\* DELETE of its id, and a second DELETE of the id is answered 404.
C13_Delete ==
    \A r \in Req :
        (Handled(r, "DELETE") /\ ObjectIdOk(req[r].id)) =>
            /\ req[r].status = IF Named(r) # {} THEN 200 ELSE 404
            /\ req[r].status = 200 =>
                  /\ ObjectId(req[r].id) \notin {t._id : t \in tarefas}
                  /\ \A r2 \in Req :
                        (r < r2 /\ Handled(r2, "DELETE") /\ req[r2].id = req[r].id)
                        => req[r2].status = 404
                  /\ \A r2 \in Req :
                        (r < r2 /\ Handled(r2, "GET"))
                        => \A i \in DOMAIN req[r2].body.items :
                              req[r2].body.items[i].id # req[r].id
            /\ (Quiet /\ \A r2 \in Req : r2 > r => req[r2].pc = "idle")
                  => StoredDTOs = {e \in Expected(r - 1) : e.id # req[r].id}

\* a Task was created, deleted with 200, and the second DELETE of its id
\* was answered 404
C13_Witness ==
    /\ Handled(1, "POST") /\ req[1].status = 201
    /\ Handled(2, "DELETE") /\ req[2].id = req[1].body.id /\ req[2].status = 200
    /\ Handled(3, "DELETE") /\ req[3].id = req[1].body.id /\ req[3].status = 404
    /\ tarefas = {}

(***************************************************************************)
(* Snapshot writes are best effort: C14                                    *)
(***************************************************************************)
\* the request record after the snapshot step of its handler when the
\* snapshot write succeeds
AfterSnapshotOk(q) ==
    CASE q.pc = "criar_snapshot" -> [q EXCEPT !.pc = "criar_save", !.snap = "ok"]
      [] q.pc = "atualizar_snapshot" ->
            Respond([q EXCEPT !.snap = "ok"], 200,
                    [id |-> q.id, titulo |-> q.atualizada.titulo,
                     descricao |-> q.atualizada.descricao,
                     concluida |-> q.atualizada.concluida])
      [] q.pc = "deletar_snapshot" ->
            Respond([q EXCEPT !.snap = "ok"], 200,
                    [message |-> "Tarefa deletada com sucesso"])

\* a snapshot step leaves the request, but for the note of the failure, and
\* the Task and idempotency stores as the successful write does
SnapshotStepSameOutcome ==
    \A r \in Req :
        (/\ req[r].pc \in {"criar_snapshot", "atualizar_snapshot", "deletar_snapshot"}
         /\ req'[r] # req[r])
        => /\ [req'[r] EXCEPT !.snap = "ok"] = AfterSnapshotOk(req[r])
           /\ UNCHANGED <<tarefas, idempotency, nextId>>

\* a create whose idempotency store did not fail is answered 201 with its
\* Task, snapshot written or not
CreateAnsweredWhateverSnapshot ==
    \A r \in Req :
        (Handled(r, "POST") /\ req[r].snap # "none" /\ req[r].idem # "failed")
        => /\ req[r].status = 201
           /\ req[r].body = SetFields(Written(req[r].dados),
                                      [id |-> Str(req[r].tarefa_id)])

\* C14: a failing snapshot write on create, update or delete changes
\* neither the response (status and body) nor the Task store: both are what
\* they are when the write succeeds.
C14_SnapshotFailureTransparent ==
    [][SnapshotStepSameOutcome]_vars /\ []CreateAnsweredWhateverSnapshot

\* a create was answered 201 although its snapshot write failed: the Task
\* is stored and has no snapshot
C14_Witness ==
    \E r \in Req :
        /\ Handled(r, "POST") /\ req[r].snap = "failed" /\ req[r].status = 201
        /\ req[r].tarefa_id \in {t._id : t \in tarefas}
        /\ req[r].tarefa_id \notin {s._id : s \in task_snapshots}

(***************************************************************************)
(* Idempotency store failures: C15                                         *)
(***************************************************************************)
\* C15: a POST with an Idempotency-Key whose lookup or save in the
\* idempotency store raised is answered 500, never 200 or 201; a 200 is the
\* resource of a record that was read and a 201 one whose record was saved.
C15_StoreFailureFailsCreate ==
    \A r \in Req :
        (Handled(r, "POST") /\ HasKey(r)) =>
            /\ req[r].idem = "failed" => req[r].status = 500
            /\ req[r].status \in {200, 201} =>
                  /\ req[r].idem = "ok"
                  /\ \E d \in RecordsFor(r) : d.resource = req[r].body

\* the save of the idempotency record raised after the Task was inserted:
\* the request was answered 500
C15_Witness ==
    \E r \in Req :
        /\ Handled(r, "POST") /\ HasKey(r) /\ req[r].idem = "failed"
        /\ Inserted(r) /\ req[r].status = 500

(***************************************************************************)
(* Order of the verification steps: C16                                    *)
(***************************************************************************)
\* the header is two words, the first "bearer" in any case
BearerShaped(h) == h.present /\ ~MalformedHeader(h)

\* C16 as stated: a decorated call (AUTH0_DOMAIN configured) with a
\* well-shaped bearer header whose token has no parsable header is answered
\* 401 whatever the key-set cache holds and whatever the identity provider
\* answers; and one whose token
\* names a key id that the key set obtained does not contain is answered
\* 401 (no signature is checked: a forged token with the key id of a known
\* key is not in this case).
C16_VerificationOrder ==
    (/\ call.op = "decorated" /\ ~TESTING /\ AUTH0_DOMAIN # NoneStr
     /\ BearerShaped(call.auth)) =>
        LET t == Jwt(TokenOf(call.auth)) IN
        /\ ~t.wellformed => call.status = 401 /\ ~call.run
        /\ (/\ t.wellformed /\ KeysObtained
            /\ PickedKeys(call.impl, CacheOf(call.impl).jwks, t.kid) = {})
           => call.status = 401 /\ ~call.run

(***************************************************************************)
(* Rejected requests: C17                                                  *)
(***************************************************************************)
\* the request is answered by the decorator in this step
RejectedNow(r) == req[r].pc = "idle" /\ req'[r].pc = "done"

\* a request the decorator answers gets 401, 403 or 500 and the step leaves
\* the three stores as they were
RejectionLeavesStores ==
    \A r \in Req :
        RejectedNow(r) =>
            /\ req'[r].status \in {401, 403, 500}
            /\ UNCHANGED <<tarefas, task_snapshots, idempotency, nextId>>

\* a store changes only in a step of a handler the decorator let run
StoresChangeInHandlersOnly ==
    <<tarefas, task_snapshots, idempotency>>' # <<tarefas, task_snapshots, idempotency>>
    => \E r \in Req : /\ Entered(r) /\ req[r].pc \notin {"idle", "done"}
                      /\ req'[r] # req[r]

\* a request whose key-set fetch failed is answered 500 by the decorator
FetchFailureIs500 ==
    \A r \in Req :
        (req[r].pc = "idle" /\ req'[r].pc # "idle" /\ req'[r].fetch = "failed")
        => req'[r].pc = "done" /\ req'[r].status = 500

\* C17: a request that token verification rejects leaves the Task, snapshot
\* and idempotency stores unchanged (verification writes the key-set cache
\* only), and a request whose key-set fetch fails is answered 500 without
\* its handler running.
C17_RejectionFrame ==
    [][RejectionLeavesStores /\ StoresChangeInHandlersOnly /\ FetchFailureIs500]_vars

\* a request was answered 500 because the key-set fetch failed, the next
\* one 401 after a fetch that filled the cache, and the stores are empty
C17_Witness ==
    /\ Done(1) /\ ~Entered(1) /\ req[1].fetch = "failed" /\ req[1].status = 500
    /\ Done(2) /\ ~Entered(2) /\ req[2].fetch = "ok" /\ req[2].status = 401
    /\ JWKS_CACHE.jwks # NoneDoc
    /\ tarefas = {} /\ task_snapshots = {} /\ idempotency = {}

(***************************************************************************)
(* Snapshot status: C18                                                    *)
(***************************************************************************)
\* only creates, updates and reads so far, all answered, no snapshot write
\* failed
CreatesAndUpdatesOnly ==
    /\ Quiet
    /\ \A r \in Req : req[r].method # "DELETE" /\ req[r].snap # "failed"

\* C18 as stated: after sequential creates and updates in which no snapshot
\* write failed, the snapshot of every Task has status "done" if the Task's
\* concluida is true and "open" if it is false.
C18_SnapshotStatus ==
    CreatesAndUpdatesOnly =>
        \A t \in tarefas : \A s \in task_snapshots :
            s._id = t._id => s.status = IF t.concluida = TRUE THEN "done" ELSE "open"

(***************************************************************************)
(* Snapshots under concurrency: C19                                        *)
(***************************************************************************)
\* every request is answered and no snapshot write failed
SettledNoSnapshotFailure == Quiet /\ \A r \in Req : req[r].snap # "failed"

\* C19 as stated: once all in-flight requests have completed, no snapshot
\* write having failed, the ids in the snapshot store are the ids in the
\* Task store, whatever the interleaving of the POST, PUT and DELETE
\* requests: no snapshot remains for a deleted Task.
C19_SnapshotLockstep ==
    SettledNoSnapshotFailure =>
        {s._id : s \in task_snapshots} = {t._id : t \in tarefas}

(***************************************************************************)
(* Idempotency records: C20                                                *)
(***************************************************************************)
\* C20 as stated: a record of the idempotency store, once there, stays with
\* the response body it has: no step of any POST, in any interleaving,
\* replaces or removes it.
C20_RecordImmutable ==
    [][\A d \in idempotency :
          \E d2 \in idempotency' :
              /\ d2.collection = d.collection
              /\ d2.idempotency_key = d.idempotency_key
              /\ d2.resource = d.resource]_vars

\* the request saves its record in this step and is answered 201
SavesNow(r) ==
    /\ req[r].method = "POST" /\ req[r].pc = "criar_save" /\ HasKey(r)
    /\ req'[r].pc = "done" /\ req'[r].status = 201

\* C20 amended: a record is never removed, and its body changes only in
\* the save of a POST with its key that went past the lookup (it found no
\* record when it looked, before the record was saved) and is answered 201:
\* that save leaves one record for the key, holding that POST's response.
\* Every other step, the lookup and the 200 of a request that finds the
\* record included, leaves the record as it is.
C20_RecordRewrittenOnlyBySave ==
    [][\A d \in idempotency :
          \/ d \in idempotency'
          \/ \E r \in Req :
                /\ SavesNow(r) /\ req[r].key.value = d.idempotency_key
                /\ {d2 \in idempotency' : d2.idempotency_key = d.idempotency_key}
                      = {[collection |-> d.collection,
                          idempotency_key |-> d.idempotency_key,
                          resource |-> req'[r].body]}]_vars

\* two POSTs under one key were both answered 201 with different bodies,
\* and the one record of the key holds the body of the second to save
C20_Witness ==
    \E r1, r2 \in Req :
        /\ r1 # r2 /\ Handled(r1, "POST") /\ Handled(r2, "POST") /\ HasKey(r1)
        /\ req[r2].key = req[r1].key
        /\ req[r1].status = 201 /\ req[r2].status = 201
        /\ req[r1].body # req[r2].body
        /\ idempotency = {[collection |-> "tarefas",
                           idempotency_key |-> req[r2].key.value,
                           resource |-> req[r2].body]}

(***************************************************************************)
(* SpecOwner: creates and updates by two callers, one request at a time,   *)
(* the updates with bodies that name owner and id fields                   *)
(***************************************************************************)
Callers == {Bearer("tGood"), Bearer("tNoScope")}     \* subjects u1 and u2
OwnerBodies ==
    {[concluida |-> TRUE],
     [titulo |-> "t2", owner |-> "u9", _id |-> 9, id |-> Str(9)]}

InitOwner == TESTING \in BOOLEAN /\ InitService

NextOwner ==
    \E r \in Req :
        \/ /\ Quiet
           /\ Arrive(r, Callers, {}, ServiceNet, {NoKey}, {[descricao |-> "d1"]},
                     OwnerBodies, {Str(i) : i \in 1..(nextId - 1)})
        \/ Step(r)

SpecOwner == InitOwner /\ [][NextOwner]_vars

(***************************************************************************)
(* Owner and identifier: C21                                               *)
(***************************************************************************)
\* the subject of the identity a request was made with
SubjectOf(r) ==
    IF TESTING THEN "test-user" ELSE Jwt(TokenOf(req[r].auth)).sub

\* every stored Task has the id it was inserted with by a POST and the
\* subject of that POST as its owner
OwnerIsCreator ==
    \A t \in tarefas :
        \E r \in Req : /\ req[r].method = "POST" /\ Entered(r)
                       /\ req[r].tarefa_id = t._id
                       /\ t.owner = SubjectOf(r)

\* no step changes the owner of a stored Task, and the step of a PUT leaves
\* the ids of the store as they are
OwnerAndIdKept ==
    /\ \A t \in tarefas : \A t2 \in tarefas' : t2._id = t._id => t2.owner = t.owner
    /\ \A r \in Req :
          (req[r].method = "PUT" /\ req'[r] # req[r])
          => {t._id : t \in tarefas'} = {t._id : t \in tarefas}

\* C21: a Task's owner is the subject of the identity that made the
\* creating POST, and neither it nor the Task's id changes afterwards,
\* whoever sends a PUT and whatever its body names, owner and id included.
C21_OwnerAndIdImmutable == []OwnerIsCreator /\ [][OwnerAndIdKept]_vars

\* the Task that u1 created was updated by u2 with a body naming owner, _id
\* and id: 200, the titulo changed, owner and id as created
C21_Witness ==
    /\ ~TESTING
    /\ Handled(1, "POST") /\ req[1].auth = Bearer("tGood") /\ req[1].status = 201
    /\ Handled(2, "PUT") /\ req[2].auth = Bearer("tNoScope")
    /\ req[2].id = req[1].body.id /\ "owner" \in DOMAIN req[2].dados
    /\ req[2].status = 200
    /\ \E t \in tarefas : t._id = req[1].tarefa_id /\ t.owner = "u1" /\ t.titulo = "t2"
    /\ Cardinality(tarefas) = 1

(***************************************************************************)
(* What a create's response refers to: C22                                 *)
(***************************************************************************)
\* the POST is answered in this step with the status
AnsweredNow(r, status) ==
    /\ req[r].method = "POST" /\ req[r].pc # "done"
    /\ req'[r].pc = "done" /\ req'[r].status = status

\* the response body is the DTO of a Task in the store as the response is
\* given
BodyIsStoredTask(r) == \E t \in tarefas' : TaskDTO(t) = req'[r].body

\* C22 as stated: the body of every 200 or 201 answered to a POST is the
\* DTO of a Task that is in the store at that moment, also for a replay
\* under an Idempotency-Key after the Task was updated or deleted.
C22_AsStated ==
    [][\A r \in Req :
          (AnsweredNow(r, 200) \/ AnsweredNow(r, 201)) => BodyIsStoredTask(r)]_vars

\* C22 amended: with requests handled one after the other, the body of a
\* 201 is the DTO of a stored Task; the body of a 200 is the resource of
\* the record kept for the key, which is the body of the earlier 201 under
\* that key, whatever has become of the Task since.
C22_ResponseRefersTo ==
    [][\A r \in Req :
          /\ AnsweredNow(r, 201) => BodyIsStoredTask(r)
          /\ AnsweredNow(r, 200) =>
                /\ req'[r].body \in {d.resource : d \in RecordsFor(r)}
                /\ \E r1 \in Req : /\ r1 < r /\ Handled(r1, "POST")
                                   /\ req[r1].key = req[r].key
                                   /\ req[r1].status = 201
                                   /\ req[r1].body = req'[r].body]_vars

\* a Task was created under a key, deleted, and the replay under the key
\* was answered 200 with the id of the Task that is gone
C22_Witness ==
    /\ Handled(1, "POST") /\ HasKey(1) /\ req[1].status = 201
    /\ Handled(2, "DELETE") /\ req[2].id = req[1].body.id /\ req[2].status = 200
    /\ Handled(3, "POST") /\ req[3].key = req[1].key /\ req[3].status = 200
    /\ req[3].body = req[1].body
    /\ tarefas = {}

====
